---- MODULE Spec2Model ----
(***************************************************************************)
(* Model of packages/client/src/utils.js: the concurrent promise pool      *)
(* (pool), the retry engine (retry) and the HTTP request helper (request). *)
(*                                                                         *)
(* Three specifications share one set of variables:                        *)
(*   Spec        - one pool() run                                          *)
(*   RetrySpec   - one retry() run with an arbitrary operation             *)
(*   RequestSpec - one request() call (retry() driving HTTP attempts)      *)
(* Each keeps the variables of the other machines at their initial value.  *)
(***************************************************************************)
EXTENDS Integers, Sequences, FiniteSets, TLC

\* ------------------------------------------------------------------ bounds
MaxN == 2
MaxTasks == 3
\* largest explicit retries option given to retry() and to request() (the
\* default is tried as well)
MaxOpRetries == 3
MaxRetries == 1
\* attempts of a request whose transport still delivers events: the latest
\* MaxLive ones
MaxLive == 2

\* ------------------------------------------------------------ pool: state
VARIABLES
  concurrency,  \* pool(): the concurrency argument
  numTasks,     \* number of promises the generator yields
  genThrows,    \* whether the generator throws instead of finishing
  started,      \* whether the executor has run the first proceed()
  pulled,       \* iterator: number of promises yielded so far
  genThrown,    \* iterator: the generator has thrown (and is finished)
  queue,        \* let queue = 0
  ret,          \* let ret = []
  err,          \* let err  (0 models undefined and every falsy value)
  task,         \* state of each generated promise
  taskErr,      \* rejection value of each rejected promise
  counted,      \* promises that passed queue++ and got handlers attached
  jobs,         \* promise reaction jobs (microtasks), in FIFO order
  poolState,    \* state of the promise pool() returned
  poolValue,    \* its rejection value
  poolResult,   \* its fulfilment value
  settleOrder,  \* history: promises in the order they settled
  decs          \* history: number of queue-- executed for each promise

poolVars == <<concurrency, numTasks, genThrows, started, pulled, genThrown,
              queue, ret, err, task, taskErr, counted, jobs, poolState,
              poolValue, poolResult, settleOrder, decs>>

\* ----------------------------------------------------------- retry: state
VARIABLES
  optRetries,   \* the retries option as passed by the caller
  retries,      \* retry(): the retries binding, counted down by retry
  runs,         \* number of times run() has invoked fn
  timers,       \* pending setTimeout(run, interval) timers
  outcome,      \* state of the promise retry() returned
  outValue,     \* its fulfilment or rejection value
  opPending,    \* RetrySpec: the current invocation of fn has not signalled
  signals,      \* history: number of retry signals so far
  lastErr,      \* history: the error passed to the latest retry signal
  onlyRetry     \* history: every signal of the operation so far was retry

retryVars == <<optRetries, retries, runs, timers, outcome, outValue,
               opPending, signals, lastErr, onlyRetry>>

\* --------------------------------------------------------- request: state
VARIABLES
  retryNotFound, \* options.retryNotFound
  buffer,        \* options.buffer === true
  hasCallback,   \* whether a callback was passed
  attempts,      \* one record per invocation of the function given to retry
  lastSig,       \* history: the latest retry/reject signal of handleError
  pure500,       \* history: every event so far was a 500 response or its end
  orderly,       \* history: every event so far came from the latest attempt,
                 \* before that attempt failed or finished
  last2xx        \* history, kept while orderly: the latest end of a 2xx
                 \* response, and what the callback did with it

requestVars == <<retryNotFound, buffer, hasCallback, attempts, lastSig, pure500,
                 orderly, last2xx>>

vars == <<poolVars, retryVars, requestVars>>

Tasks == 1..MaxTasks

\* The value promise i fulfils with, and the (truthy) error it rejects with.
TaskValue(i) == i
TaskError(i) == i
\* A falsy rejection value (undefined, null, 0, ''): indistinguishable from
\* the initial value of `let err` as far as `err` is tested.
Falsy == 0
\* The error the generator throws.
GenError == MaxTasks + 1

Truthy(e) == e # Falsy

\* ------------------------------------------------------- pool: operations

\* while (queue < concurrency)
HasCapacity_le(q, n) == q <= n
HasCapacity(q, n) == q < n

\* iterator.next() on a generator that has yielded p promises
IteratorNext(p, th) ==
  IF p < numTasks
    THEN [done |-> FALSE, value |-> p + 1, throw |-> FALSE]
    ELSE IF genThrows /\ ~th
      THEN [done |-> TRUE, value |-> 0, throw |-> TRUE]
      ELSE [done |-> TRUE, value |-> 0, throw |-> FALSE]

\* if (done || err)
StopPulling(done, e) == done \/ Truthy(e)

\* The while loop of proceed(), from queue q, p promises yielded, generator
\* thrown th, with e the current value of err.  exit tells how the loop was
\* left: "full" (condition false), "settle" (the done || err branch) or
\* "throw" (iterator.next() threw); orphan is the promise pulled by the
\* iteration that took the done || err branch, 0 if none.
RECURSIVE Proceed(_, _, _, _)
Proceed(q, p, th, e) ==
  IF ~HasCapacity(q, concurrency)
    THEN [queue |-> q, pulled |-> p, thrown |-> th, exit |-> "full", orphan |-> 0]
    ELSE LET nxt == IteratorNext(p, th) IN
      IF nxt.throw
        THEN [queue |-> q, pulled |-> p, thrown |-> TRUE, exit |-> "throw", orphan |-> 0]
      ELSE IF StopPulling(nxt.done, e)
        THEN [queue |-> q, pulled |-> IF nxt.done THEN p ELSE p + 1, thrown |-> th,
              exit |-> "settle", orphan |-> nxt.value]
      ELSE Proceed(q + 1, p + 1, th, e)

\* if (!queue && err) reject(err); if (!queue) resolve(ret);
\* on a promise in state st; a settled promise ignores both calls.
SettleState_q1(q, e, st) ==
  IF st # "pending" THEN st
  ELSE IF q = 1 /\ Truthy(e) THEN "rejected"
  ELSE IF q = 1 THEN "resolved"
  ELSE st
SettleState(q, e, st) ==
  IF st # "pending" THEN st
  ELSE IF q = 0 /\ Truthy(e) THEN "rejected"
  ELSE IF q = 0 THEN "resolved"
  ELSE st

\* ret.push(value)
PushResult_front(r, v) == <<v>> \o r
PushResult(r, v) == Append(r, v)

\* err = error
LatchError(old, new) == new

\* The effect of one call of proceed() on the pool's variables, with q and e
\* the values of queue and err on entry, r the value of ret.
ApplyProceed(q, e, r, res) ==
  LET newSt == IF res.exit = "settle" THEN SettleState(res.queue, e, poolState)
               ELSE poolState
      new == (pulled + 1)..res.pulled
  IN /\ queue' = res.queue
     /\ pulled' = res.pulled
     /\ genThrown' = res.thrown
     /\ task' = [i \in Tasks |-> IF i \in new THEN "running" ELSE task[i]]
     /\ counted' = counted \cup (new \ {res.orphan})
     /\ poolState' = newSt
     /\ poolValue' = IF poolState = "pending" /\ newSt = "rejected" THEN e ELSE poolValue
     /\ poolResult' = IF poolState = "pending" /\ newSt = "resolved" THEN r ELSE poolResult

\* new Promise((resolve, reject) => { ...; proceed(); }): an exception thrown
\* by the executor rejects the promise.
PoolStart ==
  /\ ~started
  /\ started' = TRUE
  /\ LET res == Proceed(queue, pulled, genThrown, err) IN
       IF res.exit = "throw"
         THEN /\ queue' = res.queue
              /\ pulled' = res.pulled
              /\ genThrown' = TRUE
              /\ task' = [i \in Tasks |-> IF i \in (pulled + 1)..res.pulled
                                            THEN "running" ELSE task[i]]
              /\ counted' = counted \cup ((pulled + 1)..res.pulled)
              /\ poolState' = "rejected"
              /\ poolValue' = GenError
              /\ poolResult' = poolResult
         ELSE ApplyProceed(queue, err, ret, res)
  /\ UNCHANGED <<concurrency, numTasks, genThrows, ret, err, taskErr, jobs,
                 settleOrder, decs>>
  /\ UNCHANGED <<retryVars, requestVars>>

\* A generated promise settles.  Its reactions are queued as jobs: the
\* fulfilment reaction of .then(), or the pass-through of a rejection to the
\* promise .then() returned.  A promise without handlers queues nothing.
TaskSettle(i, ok, e) ==
  /\ task[i] = "running"
  /\ task' = [task EXCEPT ![i] = IF ok THEN "ok" ELSE "fail"]
  /\ taskErr' = [taskErr EXCEPT ![i] = IF ok THEN @ ELSE e]
  /\ settleOrder' = Append(settleOrder, i)
  /\ jobs' = IF i \in counted
               THEN Append(jobs, [kind |-> IF ok THEN "then" ELSE "pass",
                                  t |-> i, e |-> IF ok THEN Falsy ELSE e])
               ELSE jobs
  /\ UNCHANGED <<concurrency, numTasks, genThrows, started, pulled, genThrown,
                 queue, ret, err, counted, poolState, poolValue, poolResult, decs>>
  /\ UNCHANGED <<retryVars, requestVars>>

\* promise.then(value => { queue--; ret.push(value); proceed(); })
\* An exception thrown by proceed() rejects the promise .then() returned,
\* which queues the .catch() handler for the same promise.
ThenHandler ==
  /\ jobs # <<>>
  /\ Head(jobs).kind = "then"
  /\ LET j == Head(jobs)
         r == PushResult(ret, TaskValue(j.t))
         res == Proceed(queue - 1, pulled, genThrown, err)
     IN /\ ret' = r
        /\ decs' = [decs EXCEPT ![j.t] = @ + 1]
        /\ ApplyProceed(queue - 1, err, r, res)
        /\ jobs' = IF res.exit = "throw"
                     THEN Append(Tail(jobs), [kind |-> "catch", t |-> j.t, e |-> GenError])
                     ELSE Tail(jobs)
  /\ UNCHANGED <<concurrency, numTasks, genThrows, started, err, taskErr, settleOrder>>
  /\ UNCHANGED <<retryVars, requestVars>>

\* A rejection passes through .then() (no rejection handler there) and queues
\* the .catch() handler.
PassRejection ==
  /\ jobs # <<>>
  /\ Head(jobs).kind = "pass"
  /\ jobs' = Append(Tail(jobs), [Head(jobs) EXCEPT !.kind = "catch"])
  /\ UNCHANGED <<concurrency, numTasks, genThrows, started, pulled, genThrown,
                 queue, ret, err, task, taskErr, counted, poolState, poolValue,
                 poolResult, settleOrder, decs>>
  /\ UNCHANGED <<retryVars, requestVars>>

\* .catch(error => { queue--; err = error; proceed(); })
\* An exception thrown by proceed() here is an unhandled rejection.
CatchHandler ==
  /\ jobs # <<>>
  /\ Head(jobs).kind = "catch"
  /\ LET j == Head(jobs)
         e == LatchError(err, j.e)
         res == Proceed(queue - 1, pulled, genThrown, e)
     IN /\ err' = e
        /\ decs' = [decs EXCEPT ![j.t] = @ + 1]
        /\ ApplyProceed(queue - 1, e, ret, res)
        /\ jobs' = Tail(jobs)
  /\ UNCHANGED <<concurrency, numTasks, genThrows, started, ret, taskErr, settleOrder>>
  /\ UNCHANGED <<retryVars, requestVars>>

PoolIdle ==
  /\ concurrency = 1
  /\ numTasks = 0
  /\ genThrows = FALSE
  /\ started = FALSE
  /\ pulled = 0
  /\ genThrown = FALSE
  /\ queue = 0
  /\ ret = <<>>
  /\ err = Falsy
  /\ task = [i \in Tasks |-> "idle"]
  /\ taskErr = [i \in Tasks |-> Falsy]
  /\ counted = {}
  /\ jobs = <<>>
  /\ poolState = "pending"
  /\ poolValue = Falsy
  /\ poolResult = <<>>
  /\ settleOrder = <<>>
  /\ decs = [i \in Tasks |-> 0]

PoolInit ==
  /\ concurrency \in 1..MaxN
  /\ numTasks \in 0..MaxTasks
  /\ genThrows \in BOOLEAN
  /\ started = FALSE
  /\ pulled = 0
  /\ genThrown = FALSE
  /\ queue = 0
  /\ ret = <<>>
  /\ err = Falsy
  /\ task = [i \in Tasks |-> "idle"]
  /\ taskErr = [i \in Tasks |-> Falsy]
  /\ counted = {}
  /\ jobs = <<>>
  /\ poolState = "pending"
  /\ poolValue = Falsy
  /\ poolResult = <<>>
  /\ settleOrder = <<>>
  /\ decs = [i \in Tasks |-> 0]

\* ------------------------------------------------------ retry: operations

\* An option left out by the caller.
Undefined == 0 - 1

\* { retries = 5, interval = 50 }: the default applies to undefined only
DefaultRetries == 5
WithDefault(opt) == IF opt = Undefined THEN DefaultRetries ELSE opt

NoValue == [kind |-> "none"]

\* resolve(v) and reject(e) of the promise retry() returned: the first call
\* settles it, later calls are ignored.
ResolveWith(v) ==
  /\ outcome' = IF outcome = "pending" THEN "resolved" ELSE outcome
  /\ outValue' = IF outcome = "pending" THEN v ELSE outValue

RejectWith(e) ==
  /\ outcome' = IF outcome = "pending" THEN "rejected" ELSE outcome
  /\ outValue' = IF outcome = "pending" THEN e ELSE outValue

\* if (retries-- > 0)
BudgetLeft_ge(r) == r >= 0
BudgetLeft_gt1(r) == r > 1
BudgetLeft(r) == r > 0

\* let retry = err => { if (retries-- > 0) setTimeout(run, interval);
\*                      else reject(err); }
RetrySignal(e) ==
  /\ retries' = retries - 1
  /\ IF BudgetLeft(retries)
       THEN /\ timers' = timers + 1
            /\ UNCHANGED <<outcome, outValue>>
       ELSE /\ timers' = timers
            /\ RejectWith(e)

\* The value or error the operation passes at its invocation number n.
OpMessages == {"a", "b"}
OpValue(n, m) == [kind |-> "value", attempt |-> n, msg |-> m]
OpError(n, m) == [kind |-> "error", attempt |-> n, msg |-> m]

\* fn calls resolve(value)
OpResolve(m) ==
  /\ opPending
  /\ opPending' = FALSE
  /\ onlyRetry' = FALSE
  /\ ResolveWith(OpValue(runs, m))
  /\ UNCHANGED <<optRetries, retries, runs, timers, signals, lastErr>>
  /\ UNCHANGED <<poolVars, requestVars>>

\* fn calls reject(error)
OpReject(m) ==
  /\ opPending
  /\ opPending' = FALSE
  /\ onlyRetry' = FALSE
  /\ RejectWith(OpError(runs, m))
  /\ UNCHANGED <<optRetries, retries, runs, timers, signals, lastErr>>
  /\ UNCHANGED <<poolVars, requestVars>>

\* fn calls retry(error)
OpRetry(m) ==
  /\ opPending
  /\ opPending' = FALSE
  /\ signals' = signals + 1
  /\ lastErr' = OpError(runs, m)
  /\ RetrySignal(OpError(runs, m))
  /\ UNCHANGED <<optRetries, runs, onlyRetry>>
  /\ UNCHANGED <<poolVars, requestVars>>

\* A timer set by retry fires: run() invokes fn again.
OpRun ==
  /\ timers > 0
  /\ timers' = timers - 1
  /\ runs' = runs + 1
  /\ opPending' = TRUE
  /\ UNCHANGED <<optRetries, retries, outcome, outValue, signals, lastErr, onlyRetry>>
  /\ UNCHANGED <<poolVars, requestVars>>

\* retry(fn, { retries, interval }) has returned: run() has invoked fn once.
EngineInit(maxRetries) ==
  /\ optRetries \in {Undefined} \cup 0..maxRetries
  /\ retries = WithDefault(optRetries)
  /\ runs = 1
  /\ timers = 0
  /\ outcome = "pending"
  /\ outValue = NoValue
  /\ signals = 0
  /\ lastErr = NoValue
  /\ onlyRetry = TRUE

RetryIdle ==
  /\ optRetries = Undefined
  /\ retries = DefaultRetries
  /\ runs = 0
  /\ timers = 0
  /\ outcome = "pending"
  /\ outValue = NoValue
  /\ opPending = FALSE
  /\ signals = 0
  /\ lastErr = NoValue
  /\ onlyRetry = TRUE

\* ---------------------------------------------------- request: operations

RETRY_ERROR_CODES ==
  {"ECONNREFUSED", "ECONNRESET", "EPIPE", "EHOSTUNREACH", "EAI_AGAIN"}

\* error.code of the errors the transport emits; "" is an error without code
NoCode == ""
Codes == RETRY_ERROR_CODES \cup {"EACCES", NoCode}

\* res.statusCode of the responses the transport delivers
Statuses == {200, 404, 500, 600}

\* The response texts the transport delivers, and those that JSON.parse
\* accepts.
JSONTexts == {"{\"ok\":true}"}
RawBodies == JSONTexts \cup {"oops"}
IsJSON(raw) == raw \in JSONTexts

\* An error the transport emitted: it has no response property.
TransportError(a, c) ==
  [kind |-> "error", attempt |-> a, hasResponse |-> FALSE, status |-> 0,
   code |-> c, body |-> NoValue]

\* Object.assign(error, { response }) in handleFinished
ResponseError(a, st, b) ==
  [kind |-> "error", attempt |-> a, hasResponse |-> TRUE, status |-> st,
   code |-> NoCode, body |-> b]

\* let shouldRetry = error.response ? ... : ...
ShouldRetry_gt500(error) ==
  IF error.hasResponse
    THEN \/ retryNotFound /\ error.status = 404
         \/ error.status > 500 /\ error.status < 600
    ELSE error.code # NoCode /\ error.code \in RETRY_ERROR_CODES
ShouldRetry_any404(error) ==
  IF error.hasResponse
    THEN \/ error.status = 404
         \/ error.status >= 500 /\ error.status < 600
    ELSE error.code # NoCode /\ error.code \in RETRY_ERROR_CODES
ShouldRetry_noPipe(error) ==
  IF error.hasResponse
    THEN \/ retryNotFound /\ error.status = 404
         \/ error.status >= 500 /\ error.status < 600
    ELSE error.code # NoCode /\ error.code \in RETRY_ERROR_CODES \ {"EPIPE"}
ShouldRetry_from200(error) ==
  IF error.hasResponse
    THEN \/ retryNotFound /\ error.status = 404
         \/ error.status >= 200 /\ error.status < 600
    ELSE error.code # NoCode /\ error.code \in RETRY_ERROR_CODES
ShouldRetry(error) ==
  IF error.hasResponse
    THEN \/ retryNotFound /\ error.status = 404
         \/ error.status >= 500 /\ error.status < 600
    ELSE error.code # NoCode /\ error.code \in RETRY_ERROR_CODES

\* let raw = body.toString('utf-8'); if (buffer !== true) body = raw;
\* try { body = JSON.parse(raw); } catch {}
DecodeBody(raw, buf) ==
  LET body == IF ~buf THEN [kind |-> "text", raw |-> raw]
              ELSE [kind |-> "bytes", raw |-> raw]
  IN IF IsJSON(raw) THEN [kind |-> "json", raw |-> raw] ELSE body

\* statusCode >= 200 && statusCode < 300
IsSuccess_gt200(st) == st > 200 /\ st < 300
IsSuccess_noUpper(st) == st >= 200
IsSuccess(st) == st >= 200 /\ st < 300

\* The state of one invocation of the function request() gives to retry:
\* the response received (status 0: none yet), whether its end event was
\* delivered, handleError.handled, and how many signals it has sent.
NewAttempt ==
  [status |-> 0, raw |-> "", ended |-> FALSE, handled |-> FALSE, sigs |-> 0,
   dead |-> FALSE]

Live == {a \in 1..Len(attempts) : ~attempts[a].dead}

\* An attempt whose remaining events can have no effect is recorded as dead:
\* handleError has acted (handled), so error events return at once, and
\* either handleFinished has run or the response is not a 2xx one, so that
\* handleFinished would only call handleError.
Closed(att) ==
  [NewAttempt EXCEPT !.dead = TRUE, !.handled = TRUE, !.sigs = att.sigs]
Settled(att) ==
  IF att.handled /\ att.status # 0 /\ (att.ended \/ ~IsSuccess(att.status))
    THEN Closed(att) ELSE att

\* An event of attempt a is in order when a is the latest attempt and has
\* neither failed (handleError acted) nor finished (end delivered) yet.
InOrder(a) ==
  a = runs /\ ~attempts[a].handled /\ ~attempts[a].ended

\* if (handleError.handled) return;
AlreadyHandled_never(att) == FALSE
AlreadyHandled(att) == att.handled

\* handleError(error) of attempt a, with atts the attempts as updated by the
\* caller so far.
HandleError(atts, a, error) ==
  IF AlreadyHandled(atts[a])
    THEN /\ attempts' = atts
         /\ UNCHANGED <<retries, timers, outcome, outValue, lastSig>>
    ELSE /\ attempts' = [atts EXCEPT
                          ![a] = Settled([@ EXCEPT !.handled = TRUE, !.sigs = @ + 1])]
         /\ IF ShouldRetry(error)
              THEN /\ RetrySignal(error)
                   /\ lastSig' = [attempt |-> a, kind |-> "retry", err |-> error]
              ELSE /\ RejectWith(error)
                   /\ lastSig' = [attempt |-> a, kind |-> "reject", err |-> error]
                   /\ UNCHANGED <<retries, timers>>

\* req.on('error', handleError)
ReqError(a, c) ==
  /\ a \in Live
  /\ HandleError(attempts, a, TransportError(a, c))
  /\ pure500' = FALSE
  /\ orderly' = (orderly /\ InOrder(a))
  /\ last2xx' = IF orderly /\ InOrder(a) THEN last2xx ELSE NoValue
  /\ UNCHANGED <<optRetries, runs, opPending, signals, lastErr, onlyRetry,
                 retryNotFound, buffer, hasCallback>>
  /\ UNCHANGED poolVars

\* req.on('response', handleResponse): the response arrives
Response(a, st, raw) ==
  /\ a \in Live
  /\ attempts[a].status = 0
  /\ attempts' = [attempts EXCEPT
                    ![a] = Settled([@ EXCEPT !.status = st, !.raw = raw])]
  /\ pure500' = (pure500 /\ st = 500 /\ a = runs)
  /\ orderly' = (orderly /\ InOrder(a))
  /\ last2xx' = IF orderly /\ InOrder(a) THEN last2xx ELSE NoValue
  /\ UNCHANGED <<retryVars, retryNotFound, buffer, hasCallback, lastSig>>
  /\ UNCHANGED poolVars

\* res.on('error', handleError)
ResError(a, c) ==
  /\ a \in Live
  /\ attempts[a].status # 0
  /\ HandleError(attempts, a, TransportError(a, c))
  /\ pure500' = FALSE
  /\ orderly' = (orderly /\ InOrder(a))
  /\ last2xx' = IF orderly /\ InOrder(a) THEN last2xx ELSE NoValue
  /\ UNCHANGED <<optRetries, runs, opPending, signals, lastErr, onlyRetry,
                 retryNotFound, buffer, hasCallback>>
  /\ UNCHANGED poolVars

\* The value a callback returns, when it returns one.
CallbackValue(body) == [kind |-> "callback", of |-> body]

\* res.on('end', () => handleFinished(Buffer.concat(chunks), res)), with cb
\* what the callback does in this call: "none" (no callback), "value",
\* "nothing" (returns undefined or null) or "throws".
HandleFinished(a, cb) ==
  /\ a \in Live
  /\ attempts[a].status # 0
  /\ ~attempts[a].ended
  /\ LET st == attempts[a].status
         body == DecodeBody(attempts[a].raw, buffer)
         atts == [attempts EXCEPT ![a] = Settled([@ EXCEPT !.ended = TRUE])]
     IN IF IsSuccess(st) /\ cb # "throws"
          THEN /\ ResolveWith(IF cb = "value" THEN CallbackValue(body) ELSE body)
               /\ attempts' = atts
               /\ UNCHANGED <<retries, timers, lastSig>>
          ELSE HandleError(atts, a, ResponseError(a, st, body))
  /\ pure500' = (pure500 /\ attempts[a].status = 500)
  /\ orderly' = (orderly /\ InOrder(a))
  /\ last2xx' = IF ~(orderly /\ InOrder(a)) THEN NoValue
                ELSE IF attempts[a].status >= 200 /\ attempts[a].status < 300
                  THEN [kind |-> "end", attempt |-> a, raw |-> attempts[a].raw,
                        cb |-> cb]
                  ELSE last2xx
  /\ UNCHANGED <<optRetries, runs, opPending, signals, lastErr, onlyRetry,
                 retryNotFound, buffer, hasCallback>>
  /\ UNCHANGED poolVars

\* A timer set by retry fires: run() invokes the function again, which
\* creates a new handleError and issues a new http.request.
RequestRun ==
  /\ timers > 0
  /\ timers' = timers - 1
  /\ runs' = runs + 1
  /\ attempts' = [a \in 1..(Len(attempts) + 1) |->
                    IF a = Len(attempts) + 1 THEN NewAttempt
                    ELSE IF a + MaxLive <= Len(attempts) + 1
                      THEN Closed(attempts[a])
                      ELSE attempts[a]]
  /\ UNCHANGED <<optRetries, retries, outcome, outValue, opPending, signals,
                 lastErr, onlyRetry, retryNotFound, buffer, hasCallback, lastSig,
                 pure500, orderly, last2xx>>
  /\ UNCHANGED poolVars

NoSig == [attempt |-> 0, kind |-> "none", err |-> NoValue]

RequestIdle ==
  /\ retryNotFound = FALSE
  /\ buffer = FALSE
  /\ hasCallback = FALSE
  /\ attempts = <<>>
  /\ lastSig = NoSig
  /\ pure500 = TRUE
  /\ orderly = TRUE
  /\ last2xx = NoValue

\* request(url, options, callback) has called retry(), which has invoked the
\* function once: the first http.request is out.
RequestInit ==
  /\ EngineInit(MaxRetries)
  /\ opPending = FALSE
  /\ retryNotFound \in BOOLEAN
  /\ buffer \in BOOLEAN
  /\ hasCallback \in BOOLEAN
  /\ attempts = <<NewAttempt>>
  /\ lastSig = NoSig
  /\ pure500 = TRUE
  /\ orderly = TRUE
  /\ last2xx = NoValue

\* --------------------------------------------------------- specifications

Init == PoolInit /\ RetryIdle /\ RequestIdle

Next ==
  \/ PoolStart
  \/ \E i \in Tasks : TaskSettle(i, TRUE, Falsy)
  \/ \E i \in Tasks : \E e \in {TaskError(i), Falsy} : TaskSettle(i, FALSE, e)
  \/ ThenHandler
  \/ PassRejection
  \/ CatchHandler

Spec == Init /\ [][Next]_vars

\* Some running promise settles.
SomeTaskSettles ==
  \E i \in Tasks :
    \/ TaskSettle(i, TRUE, Falsy)
    \/ \E e \in {TaskError(i), Falsy} : TaskSettle(i, FALSE, e)

\* The pool run under the scheduling the event loop gives: the executor
\* runs, queued promise reaction jobs are run, and (the assumption of the
\* liveness claim) every started promise eventually settles.
FairSpec ==
  /\ Init
  /\ [][Next]_vars
  /\ WF_vars(PoolStart)
  /\ WF_vars(ThenHandler)
  /\ WF_vars(PassRejection)
  /\ WF_vars(CatchHandler)
  /\ WF_vars(SomeTaskSettles)

RetryInit == PoolIdle /\ EngineInit(MaxOpRetries) /\ opPending = TRUE /\ RequestIdle

RetryNext ==
  \/ \E m \in OpMessages : OpResolve(m)
  \/ \E m \in OpMessages : OpReject(m)
  \/ \E m \in OpMessages : OpRetry(m)
  \/ OpRun

RetrySpec == RetryInit /\ [][RetryNext]_vars

CallbackKinds == IF hasCallback THEN {"value", "nothing", "throws"} ELSE {"none"}

RequestSpecInit == PoolIdle /\ RequestInit

RequestNext ==
  \/ \E a \in Live : \E c \in Codes : ReqError(a, c)
  \/ \E a \in Live : \E st \in Statuses : \E raw \in RawBodies :
       Response(a, st, raw)
  \/ \E a \in Live : \E c \in Codes : ResError(a, c)
  \/ \E a \in Live : \E cb \in CallbackKinds : HandleFinished(a, cb)
  \/ RequestRun

RequestSpec == RequestSpecInit /\ [][RequestNext]_vars

\* ----------------------------------------------------------- pool: claims

Running == {i \in Tasks : task[i] = "running"}
Failed == {i \in Tasks : task[i] = "fail"}

\* Positions in the settlement order of the promises that rejected, and the
\* promise that rejected first.
FailIdx == {k \in 1..Len(settleOrder) : task[settleOrder[k]] = "fail"}
FirstFailed == settleOrder[CHOOSE k \in FailIdx : \A l \in FailIdx : k <= l]

\* The values of the promises in the order the promises settled.
CompletionValues == [k \in 1..Len(settleOrder) |-> TaskValue(settleOrder[k])]

C2_FirstErrorWins ==
  (/\ poolState = "rejected"
   /\ ~genThrows
   /\ Failed # {}
   /\ \A i \in Failed : Truthy(taskErr[i]))
  => poolValue = taskErr[FirstFailed]

\* C3: the pool settles only when no promise pulled from the generator is
\* still unsettled (the generator not throwing).
C3_NoTaskOutlivesPool ==
  (~genThrows /\ poolState # "pending") => Running = {}

\* C4: when all numTasks promises fulfil (the generator finishing normally),
\* the pool resolves with exactly numTasks values, each promise's value once,
\* in the order the promises completed.
C4_ResultsInCompletionOrder ==
  /\ (/\ ~genThrows
      /\ poolState = "resolved"
      /\ Failed = {})
     => /\ Len(poolResult) = numTasks
        /\ poolResult = CompletionValues
        /\ \A i \in 1..numTasks :
             Cardinality({k \in 1..Len(poolResult) : poolResult[k] = TaskValue(i)}) = 1
  /\ (/\ ~genThrows
      /\ started
      /\ \A i \in 1..numTasks : task[i] = "ok"
      /\ jobs = <<>>)
     => poolState = "resolved"

C4_Witness ==
  /\ poolState = "resolved"
  /\ numTasks = 3
  /\ concurrency = 2
  /\ ~genThrows
  /\ poolResult = <<TaskValue(2), TaskValue(1), TaskValue(3)>>

\* ---------------------------------------------------------- retry: claims

\* C5: retry() with retries = R invokes the operation at most R + 1 times,
\* when each invocation uses one callback at most once; with retries = 0 the
\* operation is invoked exactly once.
C5_AtMostRPlusOneRuns ==
  /\ runs + timers <= WithDefault(optRetries) + 1
  /\ runs >= 1
  /\ optRetries = 0 => (runs = 1 /\ timers = 0)

C5_Witness ==
  /\ optRetries = 2
  /\ runs = 3
  /\ onlyRetry
  /\ signals = 3
  /\ outcome = "rejected"

\* C6: when the operation signals retry on every attempt, the promise rejects
\* exactly at the (retries + 1)-th retry signal, with the error passed to
\* that latest signal.
C6_RejectsWithLastError ==
  onlyRetry =>
    /\ outcome # "resolved"
    /\ outcome = "rejected" <=> signals = WithDefault(optRetries) + 1
    /\ outcome = "rejected" =>
         /\ outValue = lastErr
         /\ outValue.attempt = WithDefault(optRetries) + 1

C6_Witness ==
  /\ onlyRetry
  /\ optRetries = 1
  /\ signals = 2
  /\ outcome = "rejected"
  /\ outValue.attempt = 2

\* -------------------------------------------------------- request: claims

\* C7: when every attempt receives a 500 response and no retries option is
\* given, the request makes 6 attempts and then rejects with an error whose
\* response has status 500; it does not reject earlier and never resolves.
C7_Retries500UpToDefault ==
  (pure500 /\ optRetries = Undefined) =>
    /\ runs + timers <= 6
    /\ outcome # "resolved"
    /\ outcome = "rejected" =>
         /\ runs = 6
         /\ outValue.hasResponse
         /\ outValue.status = 500
         /\ outValue.attempt = 6
    /\ (runs = 6 /\ attempts[6].dead) => outcome = "rejected"

C7_Witness ==
  /\ pure500
  /\ optRetries = Undefined
  /\ runs = 6
  /\ outcome = "rejected"
  /\ outValue.status = 500

\* What the latest signal of handleError means for the request when it was
\* the terminal-failure signal: no other attempt is issued, and the promise
\* is settled, rejected with that error unless it had been settled before.
FailedImmediately ==
  /\ runs = lastSig.attempt
  /\ timers = 0
  /\ outcome # "pending"
  /\ outcome = "rejected" => outValue = lastSig.err

\* C8: an attempt that failed with a non-2xx response signals retry if and
\* only if (retryNotFound and status 404) or the status is in [500,600);
\* otherwise the request fails on that attempt and no other one is issued.
C8_RetryOnlyRetryableStatus ==
  (/\ lastSig.kind # "none"
   /\ lastSig.err.hasResponse
   /\ ~(lastSig.err.status >= 200 /\ lastSig.err.status < 300))
  => /\ lastSig.kind = "retry" <=>
          \/ retryNotFound /\ lastSig.err.status = 404
          \/ lastSig.err.status >= 500 /\ lastSig.err.status < 600
     /\ lastSig.kind = "reject" => FailedImmediately

C8_Witness ==
  /\ ~retryNotFound
  /\ lastSig.kind = "reject"
  /\ lastSig.attempt = 1
  /\ lastSig.err.hasResponse
  /\ lastSig.err.status = 404
  /\ outcome = "rejected"
  /\ runs = 1

\* C9: an attempt that failed with a transport error (no response attached)
\* signals retry if and only if the error's code is ECONNREFUSED, ECONNRESET,
\* EPIPE, EHOSTUNREACH or EAI_AGAIN; otherwise the request fails on that
\* attempt with that error.
C9_RetryOnlyTransientCodes ==
  (lastSig.kind # "none" /\ ~lastSig.err.hasResponse)
  => /\ lastSig.kind = "retry" <=>
          lastSig.err.code \in {"ECONNREFUSED", "ECONNRESET", "EPIPE",
                                "EHOSTUNREACH", "EAI_AGAIN"}
     /\ lastSig.kind = "reject" => FailedImmediately

C9_Witness ==
  /\ lastSig.kind = "reject"
  /\ lastSig.attempt = 2
  /\ ~lastSig.err.hasResponse
  /\ lastSig.err.code = "EACCES"
  /\ outcome = "rejected"
  /\ outValue.code = "EACCES"

\* C10: the decoded body the request resolves with (no callback value) is
\* structured data if and only if the raw text is valid JSON and buffer was
\* not requested; with buffer requested it is the raw bytes.
C10_StructuredIffJsonAndNoBuffer ==
  (outcome = "resolved" /\ outValue.kind \in {"json", "text", "bytes"})
  => /\ outValue.kind = "json" <=> (IsJSON(outValue.raw) /\ ~buffer)
     /\ buffer => outValue.kind = "bytes"

\* The decoded body of a response with text raw: parsed when the text is
\* valid JSON, else the bytes when buffer was requested, else the text.
ExpectedBody(raw) ==
  IF IsJSON(raw) THEN [kind |-> "json", raw |-> raw]
  ELSE IF buffer THEN [kind |-> "bytes", raw |-> raw]
  ELSE [kind |-> "text", raw |-> raw]

\* The value a 2xx end event e resolves the request with.
ExpectedResult(e) ==
  IF e.cb = "value" THEN [kind |-> "callback", of |-> ExpectedBody(e.raw)]
  ELSE ExpectedBody(e.raw)

\* Number of retry signals that were granted another attempt or, for the
\* last one, rejected: the budget used up.
BudgetUsed == WithDefault(optRetries) - retries

\* C11: when each of the first k attempts (k <= retries) ended in a retryable
\* failure and attempt k + 1 received a 2xx response (the callback, if any,
\* not throwing), the request is resolved with the result of that response
\* after exactly k + 1 attempts: no earlier error is surfaced and no other
\* attempt is pending.
C11_ResolvesAfterRetries ==
  (/\ orderly
   /\ last2xx # NoValue
   /\ last2xx.attempt = runs
   /\ last2xx.cb # "throws")
  => /\ outcome = "resolved"
     /\ outValue = ExpectedResult(last2xx)
     /\ runs = BudgetUsed + 1
     /\ runs <= WithDefault(optRetries) + 1
     /\ timers = 0

C11_Witness ==
  /\ orderly
  /\ optRetries = Undefined
  /\ runs = 5
  /\ last2xx # NoValue
  /\ last2xx.attempt = 5
  /\ ~hasCallback
  /\ outcome = "resolved"
  /\ outValue.kind = "json"

C13_ResolvesWithCallbackOrBody ==
  /\ [][(outcome = "pending" /\ outcome' = "resolved") =>
         \E a \in Live :
           /\ attempts[a].status >= 200 /\ attempts[a].status < 300
           /\ ~attempts[a].ended
           /\ attempts'[a] # attempts[a]
           /\ \/ outValue' = ExpectedBody(attempts[a].raw)
              \/ /\ hasCallback
                 /\ outValue' = [kind |-> "callback",
                                 of |-> ExpectedBody(attempts[a].raw)]]_vars
  /\ [](/\ (orderly /\ last2xx # NoValue /\ last2xx.attempt = runs
              /\ last2xx.cb = "value")
           => /\ outcome = "resolved"
              /\ outValue.kind = "callback"
              /\ outValue.of = ExpectedBody(last2xx.raw)
        /\ (orderly /\ last2xx # NoValue /\ last2xx.attempt = runs
              /\ last2xx.cb \in {"none", "nothing"})
           => /\ outcome = "resolved"
              /\ outValue = ExpectedBody(last2xx.raw))

C13_Witness ==
  /\ orderly
  /\ hasCallback
  /\ last2xx # NoValue
  /\ last2xx.cb = "value"
  /\ outcome = "resolved"
  /\ outValue.kind = "callback"

\* C14: every pull of a promise from the generator happens with the
\* in-flight counter below the concurrency and no error latched: once err
\* holds a (truthy) error, no further promise is pulled.
C14_NoPullAfterError ==
  [][pulled' > pulled => (~Truthy(err') /\ queue' <= concurrency)]_vars

\* C15: whatever events the transport delivers for an attempt, the attempt
\* sends at most one retry or terminal-failure signal, so the retry budget
\* used never exceeds the number of attempts made.
C15_OneSignalPerAttempt ==
  /\ \A a \in 1..Len(attempts) : attempts[a].sigs <= 1
  /\ BudgetUsed <= runs
  /\ lastSig.kind # "none" => attempts[lastSig.attempt].sigs = 1

\* Attempt 1 both finished a 2xx response (which resolved the request) and
\* had an error event handled: two event sources acted, one signal was sent.
C15_Witness ==
  /\ runs = 1
  /\ outcome = "resolved"
  /\ lastSig.attempt = 1
  /\ lastSig.kind = "retry"
  /\ attempts[1].sigs = 1
  /\ attempts[1].handled

\* An attempt that can still act on the request's outcome although its
\* failure was handled: its 2xx response is open, so its end event would
\* call resolve.
CanStillResolve(a) ==
  /\ ~attempts[a].dead
  /\ attempts[a].status >= 200 /\ attempts[a].status < 300
  /\ ~attempts[a].ended

\* C16: at most one attempt is in flight: when a new attempt has been
\* started (every event so far having come from the then latest attempt), no
\* earlier attempt can still deliver an event that acts on the request's
\* outcome.
C16_OneAttemptInFlight ==
  orderly => \A a \in 1..Len(attempts) : a < runs => ~CanStillResolve(a)

\* C17: success is terminal: once the request is resolved no further attempt
\* is scheduled or issued, whatever events are delivered afterwards.
C17_SuccessIsTerminal ==
  [][outcome = "resolved" => (runs' = runs /\ timers' <= timers)]_vars

\* Promises that were counted (queue++) and whose completion no handler has
\* handled yet.
Unhandled == {i \in counted : decs[i] = 0}

\* C18: in every reachable state, also when pulling from the generator
\* throws, the in-flight counter is between 0 and the concurrency and equals
\* the number of counted promises whose completion is not handled yet; each
\* completion decrements it exactly once.
C18_CounterMatchesInFlight ==
  /\ queue >= 0
  /\ queue <= concurrency
  /\ queue = Cardinality(Unhandled)
  /\ \A i \in Tasks : decs[i] <= 1

\* C19: the pool resolves only if no promise of the run rejected, whatever
\* the rejection value (the generator not throwing).
C19_ResolvesOnlyWithoutFailure ==
  (~genThrows /\ poolState = "resolved") => Failed = {}

\* C20: for a generator that yields finitely many promises and finishes, if
\* every started promise eventually settles the pool's promise eventually
\* settles; once settled its state and value never change; with no promise
\* at all it resolves with an empty collection as soon as the executor ran.
C20_PoolSettlesOnce ==
  /\ ~genThrows => <>(poolState # "pending")
  /\ [][poolState # "pending" =>
         /\ poolState' = poolState
         /\ poolValue' = poolValue
         /\ poolResult' = poolResult]_vars
  /\ []((started /\ numTasks = 0 /\ ~genThrows) =>
          (poolState = "resolved" /\ poolResult = <<>>))

C20_Witness ==
  /\ ~genThrows
  /\ numTasks = 3
  /\ concurrency = 2
  /\ Len(settleOrder) = 3
  /\ jobs = <<>>
  /\ poolState = "resolved"

====
